---------------------------- MODULE Spec2Model ----------------------------
(***************************************************************************)
(* A model of the two scripts of the repository:                           *)
(*                                                                         *)
(*   generate_dashboard.py    fetches the tracked repositories one by one, *)
(*                            aborts on an empty result, otherwise renders *)
(*                            two charts, README.md and docs/index.html;   *)
(*   runner-health-check.py   runs a battery of environment checks, counts *)
(*                            the passed ones and exits with 0 or 1.       *)
(*                                                                         *)
(* Specifications:                                                         *)
(*   Spec        main() of generate_dashboard.py, every outcome of every   *)
(*               request;                                                  *)
(*   FairSpec    Spec with the scheduling of a sequential script: the      *)
(*               fetch loop, once it can step, steps;                      *)
(*   SpecRender  the four rendering functions applied to arbitrary         *)
(*               snapshot lists, the empty one included;                   *)
(*   SpecHealth  main() of runner-health-check.py, every outcome of every  *)
(*               check.                                                    *)
(*                                                                         *)
(* A snapshot is [id, stars, language]: id stands for the fields name,     *)
(* full_name and owner (the tracked identifiers have pairwise different    *)
(* names and owners); created_at and updated_at are copied and never read. *)
(* The text around the numbers of the two documents (markup, thousands     *)
(* separators, the time stamp) is not modelled: a document is the record   *)
(* of the values it is rendered from.                                      *)
(***************************************************************************)
EXTENDS Integers, Sequences, FiniteSets

VARIABLES
    pc,             \* position of generate_dashboard.main / of a renderer call
    i,              \* 1-based position of the for loop in repos_to_track
    repos_data,     \* the list get_github_data builds, the renderers read
    requests,       \* identifiers handed to requests.get, in call order
    okIds,          \* identifiers answered 200 and processed without exception
    called,         \* rendering functions invoked so far
    files,          \* artifact path -> content written in this run, or Absent
    hpc,            \* position of runner-health-check.main
    checks_passed,  \* main's counter of passed checks
    total_checks,   \* main's counter of executed checks
    results,        \* <<check name, returned boolean>> of every returned check
    lastCheck,      \* environment and return value of the latest check call
    exitCode        \* process exit status, NoExit while running

vars == <<pc, i, repos_data, requests, okIds, called, files,
          hpc, checks_passed, total_checks, results, lastCheck, exitCode>>

dashVars == <<pc, i, repos_data, requests, okIds, called, files>>
healthVars == <<hpc, checks_passed, total_checks, results, lastCheck, exitCode>>

-----------------------------------------------------------------------------
(* Bounds of the model.                                                    *)

\* longest list of freely chosen snapshots given to the renderers
MaxLen == 3
\* largest star count of those snapshots
MaxStar == 3
\* longest list of two-valued snapshots (longer than every top-K limit)
MaxLongLen == 11

-----------------------------------------------------------------------------
(* General helpers.                                                        *)

Null == "None"
Absent == [written |-> FALSE]
NoExit == "running"

Range(s) == {s[j] : j \in DOMAIN s}
Min(a, b) == IF a < b THEN a ELSE b
Take(s, k) == SubSeq(s, 1, Min(k, Len(s)))
Front(s) == SubSeq(s, 1, Len(s) - 1)
Last(s) == s[Len(s)]

\* Python's a // b on integers: ZeroDivisionError when b = 0.
FloorDiv(a, b) ==
    IF b = 0 THEN [ok |-> FALSE, val |-> 0] ELSE [ok |-> TRUE, val |-> a \div b]

\* Python's "a, b = zip(*pairs)": ValueError when pairs is empty.
Unzip(pairs) ==
    IF pairs = <<>>
    THEN [ok |-> FALSE, val |-> <<>>]
    ELSE [ok |-> TRUE, val |-> pairs]

\* insertion of x into a list sorted descending by key, before its ties
InsertBeforeTies(sorted, x) ==
    LET before == {j \in DOMAIN sorted : sorted[j].key > x.key}
        n == Cardinality(before)
    IN SubSeq(sorted, 1, n) \o <<x>> \o SubSeq(sorted, n + 1, Len(sorted))

\* insertion of x into a list sorted descending by key, after its ties
Insert(sorted, x) ==
    LET before == {j \in DOMAIN sorted : sorted[j].key >= x.key}
        n == Cardinality(before)
    IN SubSeq(sorted, 1, n) \o <<x>> \o SubSeq(sorted, n + 1, Len(sorted))

RECURSIVE SortedDesc(_)
\* sorted(items, key=..., reverse=True): descending, stable
SortedDesc(items) ==
    IF items = <<>> THEN <<>>
    ELSE Insert(SortedDesc(Front(items)), Last(items))

RECURSIVE Distinct(_)
\* the keys of a dict filled by one pass over s, in first-seen order
Distinct(s) ==
    IF s = <<>> THEN <<>>
    ELSE LET d == Distinct(Front(s))
         IN IF Last(s) \in Range(d) THEN d ELSE Append(d, Last(s))

\* languages / owners: defaultdict(int) counted in one pass, as items()
Frequencies(s) ==
    LET d == Distinct(s)
    IN [j \in 1..Len(d) |->
          [key |-> Cardinality({k \in DOMAIN s : s[k] = d[j]}), val |-> d[j]]]

RECURSIVE SumSeq(_)
SumSeq(s) == IF s = <<>> THEN 0 ELSE SumSeq(Front(s)) + Last(s)

Stars(data) == [j \in 1..Len(data) |-> data[j].stars]
Langs(data) == [j \in 1..Len(data) |-> data[j].language]
Owners(data) == [j \in 1..Len(data) |-> data[j].id]
Ids(data) == [j \in 1..Len(data) |-> data[j].id]

\* sum(repo['stars'] for repo in repos_data)
SumStars(data) == SumSeq(Stars(data))

\* sorted(repos_data, key=lambda x: x['stars'], reverse=True)[:k]
TopRepos(data, k) ==
    LET keyed == [j \in 1..Len(data) |-> [key |-> data[j].stars, val |-> data[j]]]
        sorted == SortedDesc(keyed)
    IN Take([j \in 1..Len(sorted) |-> sorted[j].val], k)

-----------------------------------------------------------------------------
(* generate_dashboard.py: the fetcher.                                     *)

NumRepos == 8
repos_to_track == [j \in 1..NumRepos |-> j]

\* bodies of a 200 answer: the star count and the (possibly null) language
ResponseBodies ==
    { [stargazers_count |-> 0, language |-> Null],
      [stargazers_count |-> 1, language |-> "Python"] }

\* repo_data['language'] or 'Unknown'
LanguageOrUnknown(raw) == IF raw = Null \/ raw = "" THEN "Unknown" ELSE raw

Snapshot(id, body) ==
    [id |-> id, stars |-> body.stargazers_count,
     language |-> LanguageOrUnknown(body.language)]

PrependSnapshot(data, id, body) == <<Snapshot(id, body)>> \o data

\* repos_data.append({...}) of the 200 branch
AppendSnapshot(data, id, body) == Append(data, Snapshot(id, body))

RetrySame(k) == k

\* the for loop after the else branch or the except clause: next identifier
AfterFailure(k) == k + 1

InLoop == pc = "fetch" /\ i <= NumRepos

\* status 200, body read and appended
FetchOk ==
    /\ InLoop
    /\ \E body \in ResponseBodies :
          repos_data' = AppendSnapshot(repos_data, repos_to_track[i], body)
    /\ requests' = Append(requests, repos_to_track[i])
    /\ okIds' = okIds \cup {repos_to_track[i]}
    /\ i' = i + 1
    /\ UNCHANGED <<pc, called, files, healthVars>>

\* any other status: the failure is printed
FetchNon200 ==
    /\ InLoop
    /\ requests' = Append(requests, repos_to_track[i])
    /\ i' = AfterFailure(i)
    /\ UNCHANGED <<pc, repos_data, okIds, called, files, healthVars>>

\* requests.get raises: caught by "except Exception", printed
FetchRequestRaises ==
    /\ InLoop
    /\ requests' = Append(requests, repos_to_track[i])
    /\ i' = AfterFailure(i)
    /\ UNCHANGED <<pc, repos_data, okIds, called, files, healthVars>>

\* status 200 but response.json() or a key lookup raises, before the append
FetchProcessRaises ==
    /\ InLoop
    /\ requests' = Append(requests, repos_to_track[i])
    /\ i' = AfterFailure(i)
    /\ UNCHANGED <<pc, repos_data, okIds, called, files, healthVars>>

\* return repos_data
FetchReturn ==
    /\ pc = "fetch"
    /\ i > NumRepos
    /\ pc' = "fetched"
    /\ UNCHANGED <<i, repos_data, requests, okIds, called, files, healthVars>>

get_github_data ==
    \/ FetchOk
    \/ FetchNon200
    \/ FetchRequestRaises
    \/ FetchProcessRaises
    \/ FetchReturn

-----------------------------------------------------------------------------
(* generate_dashboard.py: the renderers.  Each is an operator from the     *)
(* snapshot list and the files written so far to [raised, files].          *)

ChartTopLangs == 8
ChartTopRepos == 10
ChartTopOwners == 8
ReadmeTop == 5
HtmlTop == 10

Artifacts == {"charts/overview.png", "charts/languages.png", "README.md", "docs/index.html"}

Returned(fs) == [raised |-> FALSE, files |-> fs]
Raises(fs) == [raised |-> TRUE, files |-> fs]

NeverSkips(data) == FALSE

\* if not repos_data: return
OverviewSkips(data) == data = <<>>

generate_overview_chart(data, fs) ==
    IF OverviewSkips(data) THEN Returned(fs)
    ELSE
      LET top_langs == Take(SortedDesc(Frequencies(Langs(data))), ChartTopLangs)
          langsOk == top_langs = <<>> \/ Unzip(top_langs).ok
          top_repos == TopRepos(data, ChartTopRepos)
          top_owners == Take(SortedDesc(Frequencies(Owners(data))), ChartTopOwners)
          ownersOk == top_owners = <<>> \/ Unzip(top_owners).ok
      IN IF ~langsOk \/ ~ownersOk THEN Raises(fs)
         ELSE Returned([fs EXCEPT !["charts/overview.png"] =
                 [written |-> TRUE, stars |-> Stars(data), top_langs |-> top_langs,
                  top_repos |-> top_repos, top_owners |-> top_owners]])

generate_language_chart(data, fs) ==
    LET languages == Frequencies(Langs(data))
    IN IF languages # <<>>
       THEN LET bars == Unzip(SortedDesc(languages))
            IN IF ~bars.ok THEN Raises(fs)
               ELSE Returned([fs EXCEPT !["charts/languages.png"] =
                       [written |-> TRUE, bars |-> bars.val]])
       ELSE Returned(fs)

CeilAvgStars(data) ==
    IF Len(data) > 0
    THEN FloorDiv(SumStars(data) + Len(data) - 1, Len(data))
    ELSE [ok |-> TRUE, val |-> 0]

\* avg_stars = total_stars // total_repos if total_repos > 0 else 0
ReadmeAvgStars(data) ==
    IF Len(data) > 0
    THEN FloorDiv(SumStars(data), Len(data))
    ELSE [ok |-> TRUE, val |-> 0]

\* sum(...) // len(repos_data) if repos_data else 0
HtmlAvgStars(data) ==
    IF data # <<>>
    THEN FloorDiv(SumStars(data), Len(data))
    ELSE [ok |-> TRUE, val |-> 0]

Document(count, total, avg, table) ==
    [written |-> TRUE, total_repos |-> count, total_stars |-> total,
     avg_stars |-> avg, table |-> table]

update_readme(data, fs) ==
    LET total_repos == Len(data)
        total_stars == SumStars(data)
        avg_stars == ReadmeAvgStars(data)
        top_repos == TopRepos(data, ReadmeTop)
    IN IF ~avg_stars.ok THEN Raises(fs)
       ELSE Returned([fs EXCEPT !["README.md"] =
               Document(total_repos, total_stars, avg_stars.val, top_repos)])

create_index_html(data, fs) ==
    LET avg == HtmlAvgStars(data)
        top_repos == TopRepos(data, HtmlTop)
    IN IF ~avg.ok THEN Raises(fs)
       ELSE Returned([fs EXCEPT !["docs/index.html"] =
               Document(Len(data), SumStars(data), avg.val, top_repos)])

\* one call of a rendering function: r is what it does, to where it returns
Invoke(name, r, to) ==
    /\ called' = called \cup {name}
    /\ files' = r.files
    /\ pc' = IF r.raised THEN "crashed" ELSE to

-----------------------------------------------------------------------------
(* generate_dashboard.py: main.                                            *)

NeverAborts(data) == FALSE

\* if not repos_data: print("Failed to get data"); return
MainAborts(data) == data = <<>>

\* main up to the call of get_github_data
MainStart ==
    /\ pc = "start"
    /\ pc' = "fetch"
    /\ i' = 1
    /\ repos_data' = <<>>
    /\ UNCHANGED <<requests, okIds, called, files, healthVars>>

MainAbort ==
    /\ pc = "fetched"
    /\ MainAborts(repos_data)
    /\ pc' = "aborted"
    /\ UNCHANGED <<i, repos_data, requests, okIds, called, files, healthVars>>

MainOverview ==
    /\ pc = "fetched"
    /\ ~MainAborts(repos_data)
    /\ Invoke("generate_overview_chart", generate_overview_chart(repos_data, files), "languages")
    /\ UNCHANGED <<i, repos_data, requests, okIds, healthVars>>

MainLanguages ==
    /\ pc = "languages"
    /\ Invoke("generate_language_chart", generate_language_chart(repos_data, files), "readme")
    /\ UNCHANGED <<i, repos_data, requests, okIds, healthVars>>

MainReadme ==
    /\ pc = "readme"
    /\ Invoke("update_readme", update_readme(repos_data, files), "html")
    /\ UNCHANGED <<i, repos_data, requests, okIds, healthVars>>

MainHtml ==
    /\ pc = "html"
    /\ Invoke("create_index_html", create_index_html(repos_data, files), "done")
    /\ UNCHANGED <<i, repos_data, requests, okIds, healthVars>>

HealthIdle ==
    /\ hpc = [stage |-> "idle", idx |-> 0]
    /\ checks_passed = 0
    /\ total_checks = 0
    /\ results = <<>>
    /\ lastCheck = [check |-> "none"]
    /\ exitCode = NoExit

Init ==
    /\ pc = "start"
    /\ i = 1
    /\ repos_data = <<>>
    /\ requests = <<>>
    /\ okIds = {}
    /\ called = {}
    /\ files = [a \in Artifacts |-> Absent]
    /\ HealthIdle

Next ==
    \/ MainStart
    \/ get_github_data
    \/ MainAbort
    \/ MainOverview
    \/ MainLanguages
    \/ MainReadme
    \/ MainHtml

Spec == Init /\ [][Next]_vars

\* a sequential script: main, once started, runs the fetch loop to its return
FairSpec == Spec /\ WF_vars(MainStart) /\ WF_vars(get_github_data)

-----------------------------------------------------------------------------
(* The renderers as functions of an arbitrary snapshot list.               *)

Languages == {"Unknown", "Python"}
TieStars == {0, 1}

\* a list of n snapshots whose j-th has identity j
ListOf(n, stars, langs) ==
    [j \in 1..n |-> [id |-> j, stars |-> stars[j], language |-> langs[j]]]

\* short lists of any stars and languages
ShortInputs ==
    UNION { {ListOf(n, s, l) : s \in [1..n -> 0..MaxStar], l \in [1..n -> Languages]} :
            n \in 0..MaxLen }

\* long lists of tied stars, longer than the top-K limits of the renderers
LongInputs ==
    UNION { {ListOf(n, s, [j \in 1..n |-> "Unknown"]) : s \in [1..n -> TieStars]} :
            n \in (MaxLen + 1)..MaxLongLen }

InitRender ==
    /\ pc = "render"
    /\ i = 1
    /\ repos_data \in ShortInputs \cup LongInputs
    /\ requests = <<>>
    /\ okIds = {}
    /\ called = {}
    /\ files = [a \in Artifacts |-> Absent]
    /\ HealthIdle

CallOverview ==
    /\ pc = "render"
    /\ Invoke("generate_overview_chart", generate_overview_chart(repos_data, files), "render")
    /\ UNCHANGED <<i, repos_data, requests, okIds, healthVars>>

CallLanguages ==
    /\ pc = "render"
    /\ Invoke("generate_language_chart", generate_language_chart(repos_data, files), "render")
    /\ UNCHANGED <<i, repos_data, requests, okIds, healthVars>>

CallReadme ==
    /\ pc = "render"
    /\ Invoke("update_readme", update_readme(repos_data, files), "render")
    /\ UNCHANGED <<i, repos_data, requests, okIds, healthVars>>

CallHtml ==
    /\ pc = "render"
    /\ Invoke("create_index_html", create_index_html(repos_data, files), "render")
    /\ UNCHANGED <<i, repos_data, requests, okIds, healthVars>>

NextRender ==
    \/ CallOverview
    \/ CallLanguages
    \/ CallReadme
    \/ CallHtml

SpecRender == InitRender /\ [][NextRender]_vars

-----------------------------------------------------------------------------
(* runner-health-check.py.  A check function is an operator from what the  *)
(* environment does to [raised, ret]: raised when an exception leaves it.  *)

MinMajor == 3
MinMinor == 7
DiskThresholdGiB == 10

\* largest major, minor and micro version number of the interpreter
MaxMajor == 4
MaxMinor == 9
MaxMicro == 1
\* largest free disk space, in whole GiB
MaxFreeGiB == 11

required_packages == <<"requests", "matplotlib", "seaborn", "pandas">>
required_commands == <<"git", "pip">>

Versions == [major : 2..MaxMajor, minor : 0..MaxMinor, micro : 0..MaxMicro]

\* importlib.import_module: the module (with or without __version__),
\* ImportError, or any other exception raised while the module is loaded
ImportOutcomes == {"module_with_version", "module", "ImportError", "OtherError"}

\* subprocess.run([command, '--version'], ..., timeout=5): exit status zero or
\* not, TimeoutExpired, another SubprocessError, or an OSError of the exec
RunOutcomes == {"zero", "nonzero", "TimeoutExpired", "SubprocessError", "OSError"}

\* os.statvfs('.'): the free space, OSError, or AttributeError (no statvfs)
StatOutcomes ==
    [error : {"none"}, free : 0..MaxFreeGiB]
        \cup [error : {"OSError", "AttributeError"}, free : {0}]

\* urllib.request.urlopen: a response or any exception
ProbeOutcomes == {"response", "Exception"}

\* invoked: whether the check started the tool it is about
Ret(b, invoked) == [raised |-> FALSE, ret |-> b, invoked |-> invoked]
Propagates(invoked) == [raised |-> TRUE, ret |-> FALSE, invoked |-> invoked]

\* if version.major >= 3 and version.minor >= 7
check_python_version(version) ==
    Ret(version.major >= MinMajor /\ version.minor >= MinMinor, FALSE)

check_package(import) ==
    CASE import \in {"module_with_version", "module"} -> Ret(TRUE, FALSE)
      [] import = "ImportError" -> Ret(FALSE, FALSE)
      [] OTHER -> Propagates(FALSE)

check_command(resolves, run) ==
    IF resolves
    THEN IF run \in {"zero", "nonzero", "TimeoutExpired", "SubprocessError"}
         THEN Ret(TRUE, TRUE)
         ELSE Propagates(TRUE)
    ELSE Ret(FALSE, FALSE)

\* free_gb >= 10, where free_gb is the free space in GiB (stat.free its floor)
check_disk_space(stat) ==
    IF stat.error = "none"
    THEN Ret(stat.free >= DiskThresholdGiB, FALSE)
    ELSE Ret(FALSE, FALSE)

check_network(probe) == Ret(probe = "response", FALSE)

TallyAlways(passed, ok) == passed + 1

\* if check_...(): checks_passed += 1
Tally(passed, ok) == IF ok THEN passed + 1 ELSE passed

\* sys.exit(0) if checks_passed == total_checks, else sys.exit(1)
ExitStatus(passed, total) == IF passed = total THEN 0 ELSE 1

\* exit status of the interpreter when an exception leaves main
UncaughtExit == 1

At(stage, idx) == hpc = [stage |-> stage, idx |-> idx]

\* one check of main: total_checks += 1, the call, the tally; an exception
\* that leaves the check leaves main too
RunCheck(name, env, r, to) ==
    /\ total_checks' = total_checks + 1
    /\ lastCheck' = [check |-> name, env |-> env, invoked |-> r.invoked,
                     raised |-> r.raised, ret |-> r.ret]
    /\ IF r.raised
       THEN /\ hpc' = [stage |-> "crashed", idx |-> 0]
            /\ exitCode' = UncaughtExit
            /\ UNCHANGED <<checks_passed, results>>
       ELSE /\ hpc' = to
            /\ checks_passed' = Tally(checks_passed, r.ret)
            /\ results' = Append(results, <<name, r.ret>>)
            /\ UNCHANGED exitCode
    /\ UNCHANGED dashVars

HealthStart ==
    /\ At("start", 0)
    /\ hpc' = [stage |-> "version", idx |-> 0]
    /\ checks_passed' = 0
    /\ total_checks' = 0
    /\ UNCHANGED <<results, lastCheck, exitCode, dashVars>>

CheckVersion ==
    /\ At("version", 0)
    /\ \E v \in Versions :
          RunCheck("python", v, check_python_version(v),
                   [stage |-> "packages", idx |-> 1])

CheckPackage ==
    /\ hpc.stage = "packages"
    /\ \E import \in ImportOutcomes :
          RunCheck(required_packages[hpc.idx], import, check_package(import),
                   IF hpc.idx < Len(required_packages)
                   THEN [stage |-> "packages", idx |-> hpc.idx + 1]
                   ELSE [stage |-> "commands", idx |-> 1])

CheckCommand ==
    /\ hpc.stage = "commands"
    /\ \E resolves \in BOOLEAN, run \in RunOutcomes :
          RunCheck(required_commands[hpc.idx], [resolves |-> resolves, run |-> run],
                   check_command(resolves, run),
                   IF hpc.idx < Len(required_commands)
                   THEN [stage |-> "commands", idx |-> hpc.idx + 1]
                   ELSE [stage |-> "disk", idx |-> 0])

CheckDisk ==
    /\ At("disk", 0)
    /\ \E stat \in StatOutcomes :
          RunCheck("disk", stat, check_disk_space(stat),
                   [stage |-> "network", idx |-> 0])

CheckNetwork ==
    /\ At("network", 0)
    /\ \E probe \in ProbeOutcomes :
          RunCheck("network", probe, check_network(probe),
                   [stage |-> "summary", idx |-> 0])

Summary ==
    /\ At("summary", 0)
    /\ hpc' = [stage |-> "exited", idx |-> 0]
    /\ exitCode' = ExitStatus(checks_passed, total_checks)
    /\ UNCHANGED <<checks_passed, total_checks, results, lastCheck, dashVars>>

InitHealth ==
    /\ pc = "idle"
    /\ i = 1
    /\ repos_data = <<>>
    /\ requests = <<>>
    /\ okIds = {}
    /\ called = {}
    /\ files = [a \in Artifacts |-> Absent]
    /\ hpc = [stage |-> "start", idx |-> 0]
    /\ checks_passed = 0
    /\ total_checks = 0
    /\ results = <<>>
    /\ lastCheck = [check |-> "none"]
    /\ exitCode = NoExit

NextHealth ==
    \/ HealthStart
    \/ CheckVersion
    \/ CheckPackage
    \/ CheckCommand
    \/ CheckDisk
    \/ CheckNetwork
    \/ Summary

SpecHealth == InitHealth /\ [][NextHealth]_vars

-----------------------------------------------------------------------------
(* Properties of the fetcher and of main (Spec, FairSpec).                 *)

IsTrackedOk(id) == id \in okIds
FetchDone == pc \notin {"start", "fetch"}
NothingWritten == \A a \in Artifacts : files[a] = Absent

\* C1: the list get_github_data builds holds exactly one snapshot for each
\* identifier answered 200 and processed without exception, none for any
\* other identifier, in the order of the identifiers in repos_to_track.
C1_SnapshotsOfSuccesses ==
    Ids(repos_data) = SelectSeq(SubSeq(repos_to_track, 1, i - 1), IsTrackedOk)

\* three failures out of eight: five snapshots returned
C1_Witness ==
    /\ pc = "fetched"
    /\ Len(requests) = NumRepos
    /\ Cardinality(okIds) = 5
    /\ Len(repos_data) = 5

\* C2: a failure never aborts the batch: every identifier is requested
\* exactly once, in list order, without retry, whatever the earlier outcomes,
\* and get_github_data returns.
C2_BatchNeverAborts ==
    /\ [](requests = SubSeq(repos_to_track, 1, i - 1))
    /\ [](FetchDone => requests = repos_to_track)
    /\ <>FetchDone

\* the first request failed, the last one succeeded, all eight were made
C2_Witness ==
    /\ pc = "fetched"
    /\ repos_to_track[1] \notin okIds
    /\ repos_to_track[NumRepos] \in okIds
    /\ requests = repos_to_track

\* C3: with zero snapshots main aborts before any renderer is invoked and
\* nothing is written; a renderer runs only after the fetch has completed
\* with at least one snapshot.
C3_AbortBeforeRender ==
    /\ (called # {} \/ ~NothingWritten) =>
          (FetchDone /\ requests = repos_to_track /\ repos_data # <<>>)
    /\ (FetchDone /\ pc # "fetched" /\ repos_data = <<>>) =>
          (pc = "aborted" /\ called = {} /\ NothingWritten)

\* every request failed and main has returned
C3_Witness ==
    /\ pc = "aborted"
    /\ requests = repos_to_track
    /\ okIds = {}

-----------------------------------------------------------------------------
(* Properties of the renderers (SpecRender).                               *)

Written(a) == files[a].written
Documents == {"README.md", "docs/index.html"}
AllRenderers ==
    {"generate_overview_chart", "generate_language_chart", "update_readme",
     "create_index_html"}

RECURSIVE TotalFrom(_, _)
\* the sum of the star counts of data from position j on
TotalFrom(data, j) ==
    IF j > Len(data) THEN 0 ELSE data[j].stars + TotalFrom(data, j + 1)

\* avg is the floor of total / n, and 0 when n is 0
IsFloorAverage(avg, total, n) ==
    IF n = 0 THEN avg = 0 ELSE avg * n <= total /\ total < (avg + 1) * n

\* C7: the reported average is the floor of totalStars / totalCount, 0 for
\* the empty list, and README.md and docs/index.html report the same count,
\* total and average.
C7_AverageStars ==
    /\ \A a \in Documents :
          Written(a) =>
             /\ files[a].total_repos = Len(repos_data)
             /\ files[a].total_stars = TotalFrom(repos_data, 1)
             /\ IsFloorAverage(files[a].avg_stars, files[a].total_stars,
                               files[a].total_repos)
    /\ (Written("README.md") /\ Written("docs/index.html")) =>
          /\ files["README.md"].total_repos = files["docs/index.html"].total_repos
          /\ files["README.md"].total_stars = files["docs/index.html"].total_stars
          /\ files["README.md"].avg_stars = files["docs/index.html"].avg_stars

\* both documents written for a list whose total is no multiple of its length
C7_Witness ==
    /\ Written("README.md")
    /\ Written("docs/index.html")
    /\ files["README.md"].avg_stars > 0
    /\ files["README.md"].avg_stars * Len(repos_data) < files["README.md"].total_stars

PositionIn(data, x) == CHOOSE j \in DOMAIN data : data[j] = x

\* t is descending by stars, ties in the order of data, made of elements of
\* data, and of length min(k, Len(data))
IsTopByStars(t, data, k) ==
    /\ Len(t) = Min(k, Len(data))
    /\ \A j \in DOMAIN t : t[j] \in Range(data)
    /\ \A j, l \in DOMAIN t :
          j < l =>
             /\ t[j].stars >= t[l].stars
             /\ t[j].stars = t[l].stars =>
                   PositionIn(data, t[j]) < PositionIn(data, t[l])

\* C8: the top-by-stars sequences of the renderers (5 rows in README.md, 10
\* in docs/index.html and in the chart) are descending by stars, keep the
\* fetch order of equal stars, consist of input snapshots and have length
\* min(K, totalCount); stars [100, 50, 200] with K = 2 give [200, 100].
C8_TopByStars ==
    /\ Written("README.md") =>
          IsTopByStars(files["README.md"].table, repos_data, ReadmeTop)
    /\ Written("docs/index.html") =>
          IsTopByStars(files["docs/index.html"].table, repos_data, HtmlTop)
    /\ Written("charts/overview.png") =>
          IsTopByStars(files["charts/overview.png"].top_repos, repos_data, ChartTopRepos)
    /\ Stars(TopRepos(ListOf(3, <<100, 50, 200>>, <<"Go", "Go", "Go">>), 2)) = <<200, 100>>

\* more snapshots than any limit, ties among them, and the sort moved one
C8_Witness ==
    /\ Written("README.md")
    /\ Written("docs/index.html")
    /\ Written("charts/overview.png")
    /\ Len(repos_data) > HtmlTop
    /\ Len(files["docs/index.html"].table) = HtmlTop
    /\ Len(files["README.md"].table) = ReadmeTop
    /\ repos_data[1].stars < repos_data[2].stars
    /\ repos_data[2].stars = repos_data[3].stars

\* C9: on the empty list no renderer raises, the two chart functions write
\* no image, and the two documents are written with count 0, total 0,
\* average 0 and an empty table.
C9_EmptyListRenders ==
    repos_data = <<>> =>
       /\ pc # "crashed"
       /\ ~Written("charts/overview.png")
       /\ ~Written("charts/languages.png")
       /\ "update_readme" \in called =>
             files["README.md"] = Document(0, 0, 0, <<>>)
       /\ "create_index_html" \in called =>
             files["docs/index.html"] = Document(0, 0, 0, <<>>)

\* all four renderers have been applied to the empty list
C9_Witness ==
    /\ repos_data = <<>>
    /\ called = AllRenderers
    /\ pc = "render"

-----------------------------------------------------------------------------
(* Properties of the health checker (SpecHealth).                          *)

CheckOrder == <<"python">> \o required_packages \o required_commands \o <<"disk", "network">>
Ended == hpc.stage \in {"exited", "crashed"}
CheckNames == [j \in 1..Len(results) |-> results[j][1]]

\* version (major, minor) is at least (3, 7)
AtLeastMinimum(v) ==
    v.major > MinMajor \/ (v.major = MinMajor /\ v.minor >= MinMinor)

\* C4: the version check passes iff (major, minor) >= (3, 7); 3.6.0 fails
\* and 3.9.0 passes.
C4_VersionCheck ==
    /\ lastCheck.check = "python" =>
          (lastCheck.ret <=> AtLeastMinimum(lastCheck.env))
    /\ ~check_python_version([major |-> 3, minor |-> 6, micro |-> 0]).ret
    /\ check_python_version([major |-> 3, minor |-> 9, micro |-> 0]).ret

\* every check was executed and returned success
AllChecksSucceeded == results = [j \in 1..Len(CheckOrder) |-> <<CheckOrder[j], TRUE>>]

\* C5: the exit code is 0 iff every one of the nine checks returned success
\* and 1 otherwise; free disk space below the threshold counts as not
\* passed.
C5_ExitCode ==
    /\ Ended => exitCode \in {0, 1} /\ (exitCode = 0 <=> AllChecksSucceeded)
    /\ ~Ended => exitCode = NoExit
    /\ (lastCheck.check = "disk" /\ lastCheck.env.error = "none"
           /\ lastCheck.env.free < DiskThresholdGiB) =>
          (~lastCheck.raised /\ Last(results) = <<"disk", FALSE>>)

\* only the disk check failed: the run exits with 1
C5_Witness ==
    /\ hpc.stage = "exited"
    /\ exitCode = 1
    /\ results = [j \in 1..Len(CheckOrder) |-> <<CheckOrder[j], CheckOrder[j] # "disk">>]

\* C6: whatever the checks' outcomes, every check is executed in the order
\* version, packages, commands, disk space, network, each yields its
\* boolean, and the run reaches the summary with total_checks counting all.
C6_AllChecksRun ==
    /\ CheckNames = SubSeq(CheckOrder, 1, Len(results))
    /\ Ended =>
          /\ hpc.stage = "exited"
          /\ CheckNames = CheckOrder
          /\ total_checks = Len(CheckOrder)

\* C10: check_command returns True iff the tool resolves on the search
\* path, whatever the --version invocation does, and invokes nothing when
\* the tool does not resolve.
C10_CommandPresence ==
    lastCheck.check \in Range(required_commands) =>
       /\ ~lastCheck.raised
       /\ lastCheck.ret = lastCheck.env.resolves
       /\ lastCheck.invoked = lastCheck.env.resolves

=============================================================================
